---------------------------- MODULE Spec2Model ----------------------------
(***************************************************************************)
(* Model of the URL scam detector (src/app.py): the scoring function       *)
(* calculate_trust_index and the /check request handler check_url with its *)
(* signal collaborators.                                                   *)
(*                                                                         *)
(* Text is modelled as a sequence of one-character strings, so that        *)
(* str.lower(), str.count() and the `in` substring test are computed the   *)
(* way Python computes them.  The running trust score is a Python float;   *)
(* every value it takes is a multiple of 1/730 (18.25 = 73/4, 0.3 = 3/10), *)
(* so the model keeps it as an exact integer number of 1/730 units.        *)
(***************************************************************************)
EXTENDS Integers, Sequences, FiniteSets, TLC

VARIABLES
  pc,               \* position of the running call / request
  form_url,         \* request.form.get('url')
  url,              \* the url local of check_url
  text_content,     \* page text handed to the scorer
  creation_date,    \* domain_info['creation_date']
  age_days,         \* domain_info['age_days'] / domain_age
  https_status,     \* message of check_https
  https_class,      \* class of check_https
  blacklist_status, \* message of get_blacklist_status
  blacklist_class,  \* class of get_blacklist_status
  proximity_score,  \* score of get_proximity_score
  proximity_class,  \* class of get_proximity_score
  analysis,         \* text returned by analyze_with_cohere
  trust_index,      \* dict returned by calculate_trust_index
  response,         \* what check_url returns
  calls,            \* history: how often each function was invoked
  cohere_failed,    \* history: co.generate raised in analyze_with_cohere
  previous          \* history: proximity score and result of the call before

vars == << pc, form_url, url, text_content, creation_date, age_days,
           https_status, https_class, blacklist_status, blacklist_class,
           proximity_score, proximity_class, analysis, trust_index,
           response, calls, cohere_failed, previous >>

NoValue == "None"

-----------------------------------------------------------------------------
(* Text helpers                                                            *)

Min(a, b) == IF a < b THEN a ELSE b

Max(a, b) == IF a > b THEN a ELSE b

Abs(a) == IF a < 0 THEN -a ELSE a

UpperCase ==
  <<"A","B","C","D","E","F","G","H","I","J","K","L","M","N","O","P","Q","R","S","T","U","V","W","X","Y","Z">>

LowerCase ==
  <<"a","b","c","d","e","f","g","h","i","j","k","l","m","n","o","p","q","r","s","t","u","v","w","x","y","z">>

\* str.lower() on one character
LowerChar(c) ==
  IF \E i \in 1..Len(UpperCase) : UpperCase[i] = c
  THEN LowerCase[CHOOSE i \in 1..Len(UpperCase) : UpperCase[i] = c]
  ELSE c

\* str.lower()
Lower(s) == [i \in 1..Len(s) |-> LowerChar(s[i])]

\* s[i : i + len(w)] == w
MatchAt(s, w, i) ==
  /\ i + Len(w) - 1 <= Len(s)
  /\ \A k \in 1..Len(w) : s[i + k - 1] = w[k]

\* str.count(w) from position i on: non-overlapping occurrences, left to right
RECURSIVE CountFrom(_, _, _)
CountFrom(s, w, i) ==
  IF i + Len(w) - 1 > Len(s) THEN 0
  ELSE IF MatchAt(s, w, i) THEN 1 + CountFrom(s, w, i + Len(w))
  ELSE CountFrom(s, w, i + 1)

\* s.count(w)
Count(s, w) == CountFrom(s, w, 1)

\* w in s
Contains(s, w) == \E i \in 1..Len(s) : MatchAt(s, w, i)

\* s.startswith(w)
StartsWith(s, w) == MatchAt(s, w, 1)

\* sum(text.count(p) for p in phrases)
RECURSIVE SumCounts(_, _, _)
SumCounts(text, phrases, n) ==
  IF n = 0 THEN 0
  ELSE Count(text, phrases[n]) + SumCounts(text, phrases, n - 1)

\* first index >= i of s holding a blank, or Len(s) + 1
RECURSIVE WordEnd(_, _)
WordEnd(s, i) ==
  IF i > Len(s) \/ s[i] = " " THEN i ELSE WordEnd(s, i + 1)

\* s[i:].split(): the whitespace-separated words from position i on
RECURSIVE SplitFrom(_, _)
SplitFrom(s, i) ==
  IF i > Len(s) THEN << >>
  ELSE IF s[i] = " " THEN SplitFrom(s, i + 1)
  ELSE << SubSeq(s, i, WordEnd(s, i) - 1) >> \o SplitFrom(s, WordEnd(s, i))

\* ' '.join(words)
RECURSIVE JoinWords(_, _)
JoinWords(words, n) ==
  IF n = 0 THEN << >>
  ELSE IF n = 1 THEN words[1]
  ELSE JoinWords(words, n - 1) \o << " " >> \o words[n]

\* ' '.join(text.split()[:limit])
LimitWords(text, limit) ==
  LET all == SplitFrom(text, 1)
      words == SubSeq(all, 1, Min(limit, Len(all)))
  IN  JoinWords(words, Len(words))

\* first index >= i of s holding one of "/", "?", "#", or Len(s) + 1
RECURSIVE NetlocEnd(_, _)
NetlocEnd(s, i) ==
  IF i > Len(s) \/ s[i] \in {"/", "?", "#"} THEN i ELSE NetlocEnd(s, i + 1)

\* urlparse(url).netloc for a url that starts with http:// or https://
Netloc(u) ==
  LET start == IF StartsWith(u, <<"h","t","t","p","s",":","/","/">>) THEN 9 ELSE 8
  IN  SubSeq(u, start, NetlocEnd(u, start) - 1)

\* urlparse(url).scheme for a url that starts with http:// or https://
Scheme(u) ==
  IF StartsWith(u, <<"h","t","t","p","s",":","/","/">>)
  THEN <<"h","t","t","p","s">> ELSE <<"h","t","t","p">>

\* round(n / d) for d > 0: Python rounds ties to the even integer
RoundHalfEven(n, d) ==
  LET q == n \div d
      r == n % d
  IN  IF 2 * r > d \/ (2 * r = d /\ q % 2 = 1) THEN q + 1 ELSE q

\* f"{x:.1f}" of a value given in tenths
Fmt1(tenths) ==
  (IF tenths < 0 THEN "-" ELSE "") \o ToString(Abs(tenths) \div 10)
     \o "." \o ToString(Abs(tenths) % 10)

-----------------------------------------------------------------------------
(* Vocabulary and messages of the program                                  *)

scam_words ==
  << <<"w","i","n">>,
     <<"f","r","e","e">>,
     <<"u","r","g","e","n","t">>,
     <<"l","i","m","i","t","e","d">>,
     <<"o","f","f","e","r">>,
     <<"p","r","i","z","e">>,
     <<"c","o","n","g","r","a","t","u","l","a","t","i","o","n","s">>,
     <<"l","o","t","t","e","r","y">>,
     <<"s","e","l","e","c","t","e","d">> >>

negative_phrases ==
  << <<"l","i","k","e","l","y"," ","s","c","a","m">>,
     <<"s","u","s","p","i","c","i","o","u","s">>,
     <<"f","r","a","u","d","u","l","e","n","t">>,
     <<"h","i","g","h"," ","r","i","s","k">>,
     <<"b","e"," ","c","a","u","t","i","o","u","s">>,
     <<"p","h","i","s","h","i","n","g">> >>

positive_phrases ==
  << <<"l","i","k","e","l","y"," ","l","e","g","i","t","i","m","a","t","e">>,
     <<"a","p","p","e","a","r","s"," ","s","a","f","e">>,
     <<"l","o","w"," ","r","i","s","k">>,
     <<"t","r","u","s","t","w","o","r","t","h","y">> >>

\* "valid"
KwValid ==
  <<"v","a","l","i","d">>

\* "detected"
KwDetected ==
  <<"d","e","t","e","c","t","e","d">>

\* "suspicious"
KwSuspicious ==
  <<"s","u","s","p","i","c","i","o","u","s">>

\* "multiple"
KwMultiple ==
  <<"m","u","l","t","i","p","l","e">>

\* "http://"
HttpPrefix ==
  <<"h","t","t","p",":","/","/">>

\* "https://"
HttpsPrefix ==
  <<"h","t","t","p","s",":","/","/">>

\* "Valid HTTPS Found"
MsgValidHttps ==
  <<"V","a","l","i","d"," ","H","T","T","P","S"," ","F","o","u","n","d">>

\* "Invalid or Expired Certificate"
MsgInvalidCert ==
  <<"I","n","v","a","l","i","d"," ","o","r"," ","E","x","p","i","r","e","d"," ","C","e","r","t","i","f","i","c","a","t","e">>

\* "HTTPS Error: "
MsgHttpsErrorPrefix ==
  <<"H","T","T","P","S"," ","E","r","r","o","r",":"," ">>

\* "Detected by multiple engines"
MsgBlacklisted ==
  <<"D","e","t","e","c","t","e","d"," ","b","y"," ","m","u","l","t","i","p","l","e"," ","e","n","g","i","n","e","s">>

\* "Suspicious activity detected"
MsgSuspicious ==
  <<"S","u","s","p","i","c","i","o","u","s"," ","a","c","t","i","v","i","t","y"," ","d","e","t","e","c","t","e","d">>

\* "Not detected by any blacklist engine"
MsgNotDetected ==
  <<"N","o","t"," ","d","e","t","e","c","t","e","d"," ","b","y"," ","a","n","y"," ","b","l","a","c","k","l","i","s","t"," ","e","n","g","i","n","e">>

\* "Error analyzing with Cohere: "
MsgCohereErrorPrefix ==
  <<"E","r","r","o","r"," ","a","n","a","l","y","z","i","n","g"," ","w","i","t","h"," ","C","o","h","e","r","e",":"," ">>

-----------------------------------------------------------------------------
(* What the environment supplies: form values, pages, error texts, analyses *)

\* "example.com"
UrlBare ==
  <<"e","x","a","m","p","l","e",".","c","o","m">>

\* "https://example.com/shop"
UrlHttps ==
  <<"h","t","t","p","s",":","/","/","e","x","a","m","p","l","e",".","c","o","m","/","s","h","o","p">>

\* "http://"
UrlNoHost ==
  <<"h","t","t","p",":","/","/">>

\* "Welcome to our store"
PageStore ==
  <<"W","e","l","c","o","m","e"," ","t","o"," ","o","u","r"," ","s","t","o","r","e">>

\* "FREE  free Free URGENT urgent "
PageScam ==
  <<"F","R","E","E"," "," ","f","r","e","e"," ","F","r","e","e"," ","U","R","G","E","N","T"," ","u","r","g","e","n","t"," ">>

\* "Congratulations winner! You are selected to win a free lottery prize: limited offer"
PageWinner ==
  <<"C","o","n","g","r","a","t","u","l","a","t","i","o","n","s"," ","w","i","n","n","e","r","!"," ","Y","o","u"," ","a","r","e"," ","s","e","l","e","c","t","e","d"," ","t","o"," ","w","i","n"," ","a"," ","f","r","e","e"," ","l","o","t","t","e","r","y"," ","p","r","i","z","e",":"," ","l","i","m","i","t","e","d"," ","o","f","f","e","r">>

\* "This site appears safe and trustworthy"
TextSafe ==
  <<"T","h","i","s"," ","s","i","t","e"," ","a","p","p","e","a","r","s"," ","s","a","f","e"," ","a","n","d"," ","t","r","u","s","t","w","o","r","t","h","y">>

\* "This is likely a scam, be cautious, high risk"
TextRisky ==
  <<"T","h","i","s"," ","i","s"," ","l","i","k","e","l","y"," ","a"," ","s","c","a","m",","," ","b","e"," ","c","a","u","t","i","o","u","s",","," ","h","i","g","h"," ","r","i","s","k">>

\* "Phishing phishing phishing phishing phishing phishing phishing"
TextPhishing ==
  <<"P","h","i","s","h","i","n","g"," ","p","h","i","s","h","i","n","g"," ","p","h","i","s","h","i","n","g"," ","p","h","i","s","h","i","n","g"," ","p","h","i","s","h","i","n","g"," ","p","h","i","s","h","i","n","g"," ","p","h","i","s","h","i","n","g">>

\* "timed out"
ErrTimedOut ==
  <<"t","i","m","e","d"," ","o","u","t">>

\* "[Errno 22] Invalid argument"
ErrInvalidArgument ==
  <<"[","E","r","r","n","o"," ","2","2","]"," ","I","n","v","a","l","i","d"," ","a","r","g","u","m","e","n","t">>

\* "Clean"
StatusClean ==
  <<"C","l","e","a","n">>

\* request.form.get('url'): absent (None), or given: empty, without scheme,
\* with scheme, without host
FormUrls ==
  { [given |-> FALSE, value |-> << >>] }
    \cup { [given |-> TRUE, value |-> u] :
             u \in { << >>, UrlBare, UrlHttps, UrlNoHost } }

\* response.text of the fetched page, markup already stripped
Pages == { PageStore, PageScam, PageWinner }

\* text co.generate returns when it succeeds
Generations == { TextSafe, TextRisky, TextPhishing }

\* str(e) of the exceptions the network calls raise
ErrorTexts == { ErrTimedOut, ErrInvalidArgument }

MaxWords == 2000

KnownContents == { LimitWords(p, MaxWords) : p \in Pages } \cup { << >> }

KnownAnalyses ==
  Generations \cup { MsgCohereErrorPrefix \o e : e \in ErrorTexts }

KnownHttpsStatuses ==
  { MsgValidHttps, MsgInvalidCert }
    \cup { MsgHttpsErrorPrefix \o e : e \in ErrorTexts }

KnownBlacklistStatuses ==
  { MsgBlacklisted, MsgSuspicious, MsgNotDetected, StatusClean }

-----------------------------------------------------------------------------
(* calculate_trust_index                                                   *)

\* the running score is kept in units of 1/Scale
Scale == 73 * 10

FullTrust == 100

AgeThreshold == 365

AgePenaltyCap == 20

KeywordWeight == 2

KeywordPenaltyCap == 15

PhraseWeight == 5

AiPenaltyCap == 30

HttpsBonus == 5

HttpsPenalty == 15

BlacklistMultiplePenalty == 30

BlacklistPenalty == 15

HighThreshold == 70

MediumThreshold == 40

\* variant: the threshold test written with <=
IsYoungInclusive(domain_age) == domain_age <= AgeThreshold

\* domain_age < 365
IsYoung(domain_age) == domain_age < AgeThreshold

\* variant: the min(20, ...) cap left out
AgePenaltyUncapped(domain_age) == (AgeThreshold - domain_age) * 40

\* min(20, (365 - domain_age) / 18.25), in units: x / 18.25 = 40 x / 730
AgePenalty(domain_age) ==
  Min(AgePenaltyCap * Scale, (AgeThreshold - domain_age) * 40)

\* What a calculator reads off a text depends on the text alone, so for the
\* texts the environment supplies it is computed once per text (the ...Table
\* definitions) instead of once per state.

\* sum(content.lower().count(word) for word in scam_words)
CountScamWords(content) ==
  SumCounts(Lower(content), scam_words, Len(scam_words))

WordCountTable == [t \in KnownContents |-> CountScamWords(t)]

WordCount(content) == IF content \in DOMAIN WordCountTable THEN WordCountTable[content]
  ELSE CountScamWords(content)

\* min(15, word_count * 2)
KeywordPenalty(word_count) == Min(KeywordPenaltyCap, word_count * KeywordWeight)

\* sum(cohere_analysis.lower().count(phrase) for phrase in negative_phrases) * 5
NegativeScore(cohere_analysis) ==
  SumCounts(Lower(cohere_analysis), negative_phrases, Len(negative_phrases))
    * PhraseWeight

\* sum(cohere_analysis.lower().count(phrase) for phrase in positive_phrases) * 5
PositiveScore(cohere_analysis) ==
  SumCounts(Lower(cohere_analysis), positive_phrases, Len(positive_phrases))
    * PhraseWeight

\* min(30, max(0, negative_score - positive_score))
ScanAiPenalty(cohere_analysis) ==
  Min(AiPenaltyCap,
      Max(0, NegativeScore(cohere_analysis) - PositiveScore(cohere_analysis)))

AiPenaltyTable == [t \in KnownAnalyses |-> ScanAiPenalty(t)]

AiPenalty(cohere_analysis) ==
  IF cohere_analysis \in DOMAIN AiPenaltyTable THEN AiPenaltyTable[cohere_analysis]
  ELSE ScanAiPenalty(cohere_analysis)

\* "valid" in https_status.lower()
ScanHttpsValid(status) == Contains(Lower(status), KwValid)

HttpsValidTable == [t \in KnownHttpsStatuses |-> ScanHttpsValid(t)]

HttpsLooksValid(status) == IF status \in DOMAIN HttpsValidTable THEN HttpsValidTable[status]
  ELSE ScanHttpsValid(status)

\* "detected" in s.lower() or "suspicious" in s.lower()
ScanBlacklistFlagged(status) ==
  Contains(Lower(status), KwDetected) \/ Contains(Lower(status), KwSuspicious)

BlacklistFlaggedTable == [t \in KnownBlacklistStatuses |-> ScanBlacklistFlagged(t)]

BlacklistFlagged(status) ==
  IF status \in DOMAIN BlacklistFlaggedTable THEN BlacklistFlaggedTable[status]
  ELSE ScanBlacklistFlagged(status)

\* 30 if "multiple" in blacklist_status.lower() else 15
ScanBlacklistPenalty(status) ==
  IF Contains(Lower(status), KwMultiple)
  THEN BlacklistMultiplePenalty ELSE BlacklistPenalty

BlacklistPenaltyTable == [t \in KnownBlacklistStatuses |-> ScanBlacklistPenalty(t)]

BlacklistPenaltyOf(status) ==
  IF status \in DOMAIN BlacklistPenaltyTable THEN BlacklistPenaltyTable[status]
  ELSE ScanBlacklistPenalty(status)

\* variant: the penalty added to the score instead of subtracted
ProximityBonus(proximity) == 0 - proximity * 219

\* proximity_score * 0.3, in units: 0.3 = 219 / 730
ProximityPenalty(proximity) == proximity * 219

\* variant: the max(0, ...) floor left out
ClampScoreCeilingOnly(trust_score) == Min(FullTrust * Scale, trust_score)

\* max(0, min(100, trust_score))
ClampScore(trust_score) == Max(0, Min(FullTrust * Scale, trust_score))

\* the if / elif / else on the clamped, unrounded trust_score
StatusOf(trust_score) ==
  IF trust_score > HighThreshold * Scale
  THEN [status |-> "High Trust", status_class |-> "success"]
  ELSE IF trust_score > MediumThreshold * Scale
  THEN [status |-> "Medium Trust", status_class |-> "warning"]
  ELSE [status |-> "Low Trust", status_class |-> "danger"]

\* a reasons entry: the appended text, tagged with the calculator appending it
Reason(calc, text) == [calc |-> calc, text |-> text]

\* variant: reasons.insert(0, text)
PrependReason(reasons, calc, text) == << Reason(calc, text) >> \o reasons

\* reasons.append(text)
AppendReason(reasons, calc, text) == Append(reasons, Reason(calc, text))

\* the trust_score and reasons after the six calculators, before the clamp
Contributions(domain_age, content, cohere_analysis, https, blacklist, proximity) ==
  LET t0 == FullTrust * Scale
      r0 == << >>
      \* domain age
      young == IsYoung(domain_age)
      p1 == AgePenalty(domain_age)
      t1 == IF young THEN t0 - p1 ELSE t0
      r1 == IF young
            THEN AppendReason(r0, "domain_age",
                   "New domain (" \o ToString(domain_age) \o " days old): -"
                     \o Fmt1(RoundHalfEven(p1, 73)) \o "% trust")
            ELSE r0
      \* scam words
      word_count == WordCount(content)
      p2 == KeywordPenalty(word_count)
      t2 == IF word_count > 0 THEN t1 - p2 * Scale ELSE t1
      r2 == IF word_count > 0
            THEN AppendReason(r1, "keywords",
                   "Suspicious keywords detected: -" \o Fmt1(p2 * 10)
                     \o "% trust")
            ELSE r1
      \* AI analysis
      ai_penalty == AiPenalty(cohere_analysis)
      t3 == IF ai_penalty > 0 THEN t2 - ai_penalty * Scale ELSE t2
      r3 == IF ai_penalty > 0
            THEN AppendReason(r2, "ai",
                   "AI detected red flags: -" \o Fmt1(ai_penalty * 10)
                     \o "% trust")
            ELSE r2
      \* HTTPS
      valid == HttpsLooksValid(https)
      t4 == IF valid THEN t3 + HttpsBonus * Scale ELSE t3 - HttpsPenalty * Scale
      r4 == IF valid
            THEN AppendReason(r3, "https", "Valid HTTPS: +5% trust")
            ELSE AppendReason(r3, "https", "Invalid HTTPS: -15% trust")
      \* blacklist
      flagged == BlacklistFlagged(blacklist)
      p5 == BlacklistPenaltyOf(blacklist)
      t5 == IF flagged THEN t4 - p5 * Scale ELSE t4
      r5 == IF flagged
            THEN AppendReason(r4, "blacklist",
                   "Blacklist status: -" \o ToString(p5) \o "% trust")
            ELSE r4
      \* proximity
      proximity_penalty == ProximityPenalty(proximity)
      t6 == t5 - proximity_penalty
      r6 == AppendReason(r5, "proximity",
              "Proximity to suspicious sites: -"
                \o Fmt1(RoundHalfEven(proximity_penalty, 73)) \o "% trust")
  IN  [trust_score |-> t6, reasons |-> r6]

\* round(trust_score)
RoundScore(trust_score) == RoundHalfEven(trust_score, Scale)

calculate_trust_index(domain_age, content, cohere_analysis, https, blacklist, proximity) ==
  LET c == Contributions(domain_age, content, cohere_analysis, https,
                         blacklist, proximity)
      trust_score == ClampScore(c.trust_score)
      st == StatusOf(trust_score)
  IN  [score |-> RoundScore(trust_score),
       status |-> st.status,
       status_class |-> st.status_class,
       reasons |-> c.reasons]

-----------------------------------------------------------------------------
(* Direct calls of calculate_trust_index                                   *)

\* ages run from -AgeBelow to MaxAge, proximity scores from
\* -ProximityBeyond to MaxProximity + ProximityBeyond
AgeBelow == 2

MaxAge == 366

ProximityBeyond == 2

MaxProximity == 100

AgeSamples == { 0, 5, 365, 400 }

ProximitySamples == { 0, 10, 66, 100 }

Ages == ((0 - AgeBelow)..MaxAge) \cup AgeSamples

Proximities == (0 - ProximityBeyond)..(MaxProximity + ProximityBeyond)

Functions == { "fetch", "get_domain_info", "check_https",
               "get_blacklist_status", "get_proximity_score",
               "analyze_with_cohere", "calculate_trust_index" }

NoPrevious == [called |-> FALSE, proximity_score |-> 0, score |-> 0]

\* calls counts the invocations check_url makes while serving one request
NoCalls == [f \in Functions |-> 0]

Called(f) == [calls EXCEPT ![f] = @ + 1]

CalcAnalyses == Generations \cup { MsgCohereErrorPrefix \o ErrTimedOut }

CalcHttpsStatuses ==
  { MsgValidHttps, MsgInvalidCert, MsgHttpsErrorPrefix \o ErrTimedOut }

\* a caller holding the six arguments: every age with the sampled proximity
\* scores, every proximity score with the sampled ages
InitCalc ==
  /\ pc = "call"
  /\ age_days \in Ages
  /\ proximity_score \in Proximities
  /\ age_days \in AgeSamples \/ proximity_score \in ProximitySamples
  /\ text_content \in KnownContents
  /\ analysis \in CalcAnalyses
  /\ https_status \in CalcHttpsStatuses
  /\ blacklist_status \in KnownBlacklistStatuses
  /\ form_url = NoValue
  /\ url = NoValue
  /\ creation_date = NoValue
  /\ https_class = NoValue
  /\ blacklist_class = NoValue
  /\ proximity_class = NoValue
  /\ trust_index = NoValue
  /\ response = NoValue
  /\ calls = NoCalls
  /\ cohere_failed = FALSE
  /\ previous = NoPrevious

\* calculate_trust_index(domain_age, content, cohere_analysis, https_status,
\*                       blacklist_status, proximity_score) runs and returns
DirectCall ==
  /\ pc = "call"
  /\ trust_index' = calculate_trust_index(age_days, text_content, analysis,
                                          https_status, blacklist_status,
                                          proximity_score)
  /\ pc' = "return"
  /\ UNCHANGED << form_url, url, text_content, creation_date, age_days,
                  https_status, https_class, blacklist_status,
                  blacklist_class, proximity_score, proximity_class,
                  analysis, response, calls, cohere_failed, previous >>

NextCalc == DirectCall

SpecCalc == InitCalc /\ [][NextCalc]_vars

-----------------------------------------------------------------------------
(* Two calls that differ in proximity_score only                           *)

MonoContents == { LimitWords(PageStore, MaxWords), LimitWords(PageScam, MaxWords) }

MonoAnalyses == { TextSafe, TextPhishing }

MonoHttpsStatuses == { MsgValidHttps, MsgHttpsErrorPrefix \o ErrTimedOut }

InitMono ==
  /\ pc = "call"
  /\ age_days \in AgeSamples
  /\ proximity_score \in 0..MaxProximity
  /\ text_content \in MonoContents
  /\ analysis \in MonoAnalyses
  /\ https_status \in MonoHttpsStatuses
  /\ blacklist_status \in KnownBlacklistStatuses
  /\ form_url = NoValue
  /\ url = NoValue
  /\ creation_date = NoValue
  /\ https_class = NoValue
  /\ blacklist_class = NoValue
  /\ proximity_class = NoValue
  /\ trust_index = NoValue
  /\ response = NoValue
  /\ calls = NoCalls
  /\ cohere_failed = FALSE
  /\ previous = NoPrevious

\* the caller calls a second time with a proximity score at least as high and
\* every other argument as before
CallAgain ==
  /\ pc = "return"
  /\ ~previous.called
  /\ previous' = [called |-> TRUE, proximity_score |-> proximity_score,
                  score |-> trust_index.score]
  /\ \E p \in proximity_score..MaxProximity :
       /\ proximity_score' = p
       /\ trust_index' = calculate_trust_index(age_days, text_content,
                                               analysis, https_status,
                                               blacklist_status, p)
  /\ UNCHANGED << pc, form_url, url, text_content, creation_date, age_days,
                  https_status, https_class, blacklist_status,
                  blacklist_class, proximity_class, analysis, response,
                  calls, cohere_failed >>

NextMono == DirectCall \/ CallAgain

SpecMono == InitMono /\ [][NextMono]_vars

-----------------------------------------------------------------------------
(* The /check request: check_url and its collaborators                     *)

ContentSampleLen == 500

DangerAbove == 70

WarningAbove == 40

\* ages (datetime.now() - creation_date).days of the WHOIS records served
WhoisAges == { 0, 5, 400 }

\* is_valid_url(url), for a url that starts with http:// or https://
is_valid_url(u) == Scheme(u) # << >> /\ Netloc(u) # << >>

\* what whois.whois(domain) does: it raises, or returns a record without a
\* creation date, or one created `age` days before datetime.now()
WhoisOutcomes ==
  { [outcome |-> "error", age |-> 0], [outcome |-> "no_date", age |-> 0] }
    \cup { [outcome |-> "dated", age |-> a] : a \in WhoisAges }

\* get_domain_info(domain)
get_domain_info(whois) ==
  IF whois.outcome = "error"
  THEN [creation_date |-> "Unknown", age_days |-> 0]
  ELSE IF whois.outcome = "no_date"
  THEN [creation_date |-> "Unknown", age_days |-> 0]
  ELSE [creation_date |-> "formatted", age_days |-> whois.age]

\* what the TLS connection does: the certificate matches, ssl.SSLError is
\* raised, or another exception with text str(e)
TlsOutcomes ==
  { [outcome |-> "ok", text |-> << >>],
    [outcome |-> "ssl_error", text |-> << >>] }
    \cup { [outcome |-> "error", text |-> e] : e \in ErrorTexts }

\* check_https(url)
check_https(tls) ==
  IF tls.outcome = "ok" THEN << MsgValidHttps, "success" >>
  ELSE IF tls.outcome = "ssl_error" THEN << MsgInvalidCert, "danger" >>
  ELSE << MsgHttpsErrorPrefix \o tls.text, "warning" >>

\* get_blacklist_status(domain): first and second are the outcomes of
\* random.random() < 0.05 and random.random() < 0.1
get_blacklist_status(first, second) ==
  IF first THEN << MsgBlacklisted, "danger" >>
  ELSE IF second THEN << MsgSuspicious, "warning" >>
  ELSE << MsgNotDetected, "success" >>

\* get_proximity_score(domain): score is random.randint(0, 100)
get_proximity_score(score) ==
  << score,
     IF score > DangerAbove THEN "danger"
     ELSE IF score > WarningAbove THEN "warning"
     ELSE "success" >>

\* what co.generate does: it returns a text, or raises with text str(e)
CohereOutcomes ==
  { [outcome |-> "ok", text |-> g] : g \in Generations }
    \cup { [outcome |-> "error", text |-> e] : e \in ErrorTexts }

\* analyze_with_cohere(text)
analyze_with_cohere(generation) ==
  IF generation.outcome = "error"
  THEN MsgCohereErrorPrefix \o generation.text
  ELSE generation.text

\* text_content[:500] + '...'
ContentSample(text) ==
  SubSeq(text, 1, Min(ContentSampleLen, Len(text))) \o << ".", ".", "." >>

Init ==
  /\ pc = "start"
  /\ form_url \in FormUrls
  /\ url = NoValue
  /\ text_content = NoValue
  /\ creation_date = NoValue
  /\ age_days = NoValue
  /\ https_status = NoValue
  /\ https_class = NoValue
  /\ blacklist_status = NoValue
  /\ blacklist_class = NoValue
  /\ proximity_score = NoValue
  /\ proximity_class = NoValue
  /\ analysis = NoValue
  /\ trust_index = NoValue
  /\ response = NoValue
  /\ calls = NoCalls
  /\ cohere_failed = FALSE
  /\ previous = NoPrevious

\* variant: the return after 'Invalid URL format' left out
ValidateFallsThrough ==
  /\ pc = "start"
  /\ IF ~form_url.given \/ form_url.value = << >>
     THEN /\ response' = [code |-> 400, error |-> "URL is required"]
          /\ pc' = "done"
          /\ UNCHANGED url
     ELSE /\ url' = IF StartsWith(form_url.value, HttpPrefix)
                       \/ StartsWith(form_url.value, HttpsPrefix)
                    THEN form_url.value ELSE HttpsPrefix \o form_url.value
          /\ pc' = "fetch"
          /\ UNCHANGED response
  /\ UNCHANGED << form_url, text_content, creation_date, age_days,
                  https_status, https_class, blacklist_status,
                  blacklist_class, proximity_score, proximity_class,
                  analysis, trust_index, calls, cohere_failed, previous >>

\* check_url up to the try block: the url checks
Validate ==
  /\ pc = "start"
  /\ IF ~form_url.given \/ form_url.value = << >>
     THEN /\ response' = [code |-> 400, error |-> "URL is required"]
          /\ pc' = "done"
          /\ UNCHANGED url
     ELSE LET u == IF StartsWith(form_url.value, HttpPrefix)
                      \/ StartsWith(form_url.value, HttpsPrefix)
                   THEN form_url.value ELSE HttpsPrefix \o form_url.value
          IN  /\ url' = u
              /\ IF is_valid_url(u)
                 THEN pc' = "fetch" /\ UNCHANGED response
                 ELSE /\ response' = [code |-> 400,
                                      error |-> "Invalid URL format"]
                      /\ pc' = "done"
  /\ UNCHANGED << form_url, text_content, creation_date, age_days,
                  https_status, https_class, blacklist_status,
                  blacklist_class, proximity_score, proximity_class,
                  analysis, trust_index, calls, cohere_failed, previous >>

\* requests.get / raise_for_status raised: the RequestException handler
FetchFails ==
  /\ pc = "fetch"
  /\ \E e \in ErrorTexts :
       response' = [code |-> 400, error |-> "Failed to fetch URL: ",
                    detail |-> e]
  /\ calls' = Called("fetch")
  /\ pc' = "done"
  /\ UNCHANGED << form_url, url, text_content, creation_date, age_days,
                  https_status, https_class, blacklist_status,
                  blacklist_class, proximity_score, proximity_class,
                  analysis, trust_index, cohere_failed, previous >>

\* requests.get succeeded; the text is cut to its first 2000 words
FetchPage ==
  /\ pc = "fetch"
  /\ \E page \in Pages : text_content' = LimitWords(page, MaxWords)
  /\ calls' = Called("fetch")
  /\ pc' = "whois"
  /\ UNCHANGED << form_url, url, creation_date, age_days, https_status,
                  https_class, blacklist_status, blacklist_class,
                  proximity_score, proximity_class, analysis, trust_index,
                  response, cohere_failed, previous >>

GetDomainInfo ==
  /\ pc = "whois"
  /\ \E whois \in WhoisOutcomes :
       /\ creation_date' = get_domain_info(whois).creation_date
       /\ age_days' = get_domain_info(whois).age_days
  /\ calls' = Called("get_domain_info")
  /\ pc' = "https"
  /\ UNCHANGED << form_url, url, text_content, https_status, https_class,
                  blacklist_status, blacklist_class, proximity_score,
                  proximity_class, analysis, trust_index, response,
                  cohere_failed, previous >>

CheckHttps ==
  /\ pc = "https"
  /\ \E tls \in TlsOutcomes :
       /\ https_status' = check_https(tls)[1]
       /\ https_class' = check_https(tls)[2]
  /\ calls' = Called("check_https")
  /\ pc' = "blacklist"
  /\ UNCHANGED << form_url, url, text_content, creation_date, age_days,
                  blacklist_status, blacklist_class, proximity_score,
                  proximity_class, analysis, trust_index, response,
                  cohere_failed, previous >>

GetBlacklistStatus ==
  /\ pc = "blacklist"
  /\ \E first \in BOOLEAN, second \in BOOLEAN :
       /\ blacklist_status' = get_blacklist_status(first, second)[1]
       /\ blacklist_class' = get_blacklist_status(first, second)[2]
  /\ calls' = Called("get_blacklist_status")
  /\ pc' = "proximity"
  /\ UNCHANGED << form_url, url, text_content, creation_date, age_days,
                  https_status, https_class, proximity_score,
                  proximity_class, analysis, trust_index, response,
                  cohere_failed, previous >>

GetProximityScore ==
  /\ pc = "proximity"
  /\ \E score \in 0..MaxProximity :
       /\ proximity_score' = get_proximity_score(score)[1]
       /\ proximity_class' = get_proximity_score(score)[2]
  /\ calls' = Called("get_proximity_score")
  /\ pc' = "cohere"
  /\ UNCHANGED << form_url, url, text_content, creation_date, age_days,
                  https_status, https_class, blacklist_status,
                  blacklist_class, analysis, trust_index, response,
                  cohere_failed, previous >>

\* variant: analyze_with_cohere lets the exception of co.generate escape, and
\* check_url's `except Exception` answers 500
AnalyzeWithCohereRaising ==
  /\ pc = "cohere"
  /\ \E generation \in CohereOutcomes :
       /\ cohere_failed' = (generation.outcome = "error")
       /\ IF generation.outcome = "error"
          THEN /\ response' = [code |-> 500, error |-> "An error occurred: ",
                               detail |-> generation.text]
               /\ pc' = "done"
               /\ UNCHANGED analysis
          ELSE /\ analysis' = generation.text
               /\ pc' = "score"
               /\ UNCHANGED response
  /\ calls' = Called("analyze_with_cohere")
  /\ UNCHANGED << form_url, url, text_content, creation_date, age_days,
                  https_status, https_class, blacklist_status,
                  blacklist_class, proximity_score, proximity_class,
                  trust_index, previous >>

AnalyzeWithCohere ==
  /\ pc = "cohere"
  /\ \E generation \in CohereOutcomes :
       /\ analysis' = analyze_with_cohere(generation)
       /\ cohere_failed' = (generation.outcome = "error")
  /\ calls' = Called("analyze_with_cohere")
  /\ pc' = "score"
  /\ UNCHANGED << form_url, url, text_content, creation_date, age_days,
                  https_status, https_class, blacklist_status,
                  blacklist_class, proximity_score, proximity_class,
                  trust_index, response, previous >>

\* calculate_trust_index is called and the result returned as JSON
Respond ==
  /\ pc = "score"
  /\ trust_index' = calculate_trust_index(age_days, text_content, analysis,
                                          https_status, blacklist_status,
                                          proximity_score)
  /\ response' = [code |-> 200,
                  url |-> url,
                  domain |-> Netloc(url),
                  domain_creation_date |-> creation_date,
                  domain_age_days |-> age_days,
                  https_status |-> https_status,
                  https_class |-> https_class,
                  blacklist_status |-> blacklist_status,
                  blacklist_class |-> blacklist_class,
                  proximity_score |-> proximity_score,
                  proximity_class |-> proximity_class,
                  content_sample |-> ContentSample(text_content),
                  analysis |-> analysis,
                  trust_index |-> trust_index'.score,
                  trust_status |-> trust_index'.status,
                  trust_class |-> trust_index'.status_class,
                  trust_reasons |-> trust_index'.reasons,
                  status |-> "success"]
  /\ calls' = Called("calculate_trust_index")
  /\ pc' = "done"
  /\ UNCHANGED << form_url, url, text_content, creation_date, age_days,
                  https_status, https_class, blacklist_status,
                  blacklist_class, proximity_score, proximity_class,
                  analysis, cohere_failed, previous >>

\* the next request arrives; nothing of the last one is kept
NewRequest ==
  /\ pc = "done"
  /\ pc' = "start"
  /\ form_url' \in FormUrls
  /\ url' = NoValue
  /\ text_content' = NoValue
  /\ creation_date' = NoValue
  /\ age_days' = NoValue
  /\ https_status' = NoValue
  /\ https_class' = NoValue
  /\ blacklist_status' = NoValue
  /\ blacklist_class' = NoValue
  /\ proximity_score' = NoValue
  /\ proximity_class' = NoValue
  /\ analysis' = NoValue
  /\ trust_index' = NoValue
  /\ response' = NoValue
  /\ calls' = NoCalls
  /\ cohere_failed' = FALSE
  /\ UNCHANGED previous

Next ==
  \/ Validate
  \/ FetchFails
  \/ FetchPage
  \/ GetDomainInfo
  \/ CheckHttps
  \/ GetBlacklistStatus
  \/ GetProximityScore
  \/ AnalyzeWithCohere
  \/ Respond
  \/ NewRequest

Spec == Init /\ [][Next]_vars

-----------------------------------------------------------------------------
(* Properties                                                              *)

\* calculate_trust_index has returned to its direct caller
Returned == pc = "return"

\* domain age >= 0 and proximity score in 0..100
ValidInput == age_days >= 0 /\ proximity_score \in 0..MaxProximity

\* the trust_score of the call before the clamp, in units of 1/Scale
RawTotal ==
  Contributions(age_days, text_content, analysis, https_status,
                blacklist_status, proximity_score).trust_score

CalcOrder ==
  << "domain_age", "keywords", "ai", "https", "blacklist", "proximity" >>

Rank(calc) == CHOOSE i \in 1..Len(CalcOrder) : CalcOrder[i] = calc

HasReason(reasons, calc) == \E i \in 1..Len(reasons) : reasons[i].calc = calc

ReasonText(reasons, calc) ==
  reasons[CHOOSE i \in 1..Len(reasons) : reasons[i].calc = calc].text

\* C1: the level is a function of the returned, rounded score: score > 70 is
\* High, 40 < score <= 70 is Medium, score <= 40 is Low.
C1_LevelFollowsReturnedScore ==
  (Returned /\ ValidInput) =>
     /\ trust_index.score > HighThreshold
          => trust_index.status = "High Trust"
     /\ (trust_index.score > MediumThreshold
           /\ trust_index.score <= HighThreshold)
          => trust_index.status = "Medium Trust"
     /\ trust_index.score <= MediumThreshold
          => trust_index.status = "Low Trust"

\* C2: the clean scenario (age 400, "Welcome to our store", a safe analysis,
\* "Valid HTTPS Found", "Not detected by any blacklist engine", proximity 10)
\* has no domain-age, keyword, AI or blacklist contribution, the +5 HTTPS bonus
\* and the 3-point proximity penalty, and returns score 100, High.
C2_CleanScenarioScores100 ==
  (/\ Returned
   /\ age_days = 400
   /\ text_content = PageStore
   /\ analysis = TextSafe
   /\ https_status = MsgValidHttps
   /\ blacklist_status = MsgNotDetected
   /\ proximity_score = 10)
  => /\ ~HasReason(trust_index.reasons, "domain_age")
     /\ ~HasReason(trust_index.reasons, "keywords")
     /\ ~HasReason(trust_index.reasons, "ai")
     /\ ~HasReason(trust_index.reasons, "blacklist")
     /\ ReasonText(trust_index.reasons, "https") = "Valid HTTPS: +5% trust"
     /\ ReasonText(trust_index.reasons, "proximity")
          = "Proximity to suspicious sites: -3.0% trust"
     /\ trust_index.score = 100
     /\ trust_index.status = "High Trust"

\* C3: for every valid input the returned score is an integer in 0..100,
\* however far the contributions push the running total outside that range.
C3_ScoreInRange ==
  (Returned /\ ValidInput) => trust_index.score \in 0..FullTrust

\* a valid input whose contributions sum below 0, returned as score 0
C3_ClampedAtZero ==
  /\ Returned
  /\ ValidInput
  /\ RawTotal < 0
  /\ trust_index.score = 0

\* C4: when the text-generation service fails, calculate_trust_index is never
\* invoked for the request and an error is returned instead of a trust index.
C4_CohereFailureShortCircuits ==
  cohere_failed =>
     /\ calls["calculate_trust_index"] = 0
     /\ pc = "done" => response.code # 200

\* C4 as amended: when the text-generation service fails, analyze_with_cohere
\* returns the text "Error analyzing with Cohere: ..." and the request goes on:
\* calculate_trust_index is invoked once with that text as the analysis and
\* the success response carries the trust index and the error text.
C4_CohereFailureIsScored ==
  (cohere_failed /\ pc = "done") =>
     /\ calls["calculate_trust_index"] = 1
     /\ StartsWith(analysis, MsgCohereErrorPrefix)
     /\ trust_index = calculate_trust_index(age_days, text_content, analysis,
                                            https_status, blacklist_status,
                                            proximity_score)
     /\ response.code = 200
     /\ response.status = "success"
     /\ response.analysis = analysis
     /\ response.trust_index = trust_index.score

\* a request answered with a trust index although co.generate raised
C4_FailedAnalysisAnswered ==
  /\ cohere_failed
  /\ pc = "done"
  /\ response.code = 200
  /\ response.trust_index \in 0..FullTrust

\* C5: a negative domain age or a proximity score outside 0..100 makes
\* calculate_trust_index fail; it never returns a result for such an input.
C5_MalformedNeverReturns == ~ValidInput => ~Returned

\* C5 as amended: calculate_trust_index does not validate its signals.  For a
\* negative domain age or a proximity score outside 0..100 it returns a score
\* in 0..100, a level and reasons like for any other input: a negative age is
\* charged the capped 20-point domain-age penalty, an out-of-range proximity
\* score is charged proximity * 0.3.
C5_MalformedIsScored ==
  (Returned /\ ~ValidInput) =>
     /\ trust_index.score \in 0..FullTrust
     /\ trust_index.status \in {"High Trust", "Medium Trust", "Low Trust"}
     /\ age_days < 0 =>
          ReasonText(trust_index.reasons, "domain_age")
            = "New domain (" \o ToString(age_days)
                \o " days old): -20.0% trust"
     /\ ReasonText(trust_index.reasons, "proximity")
          = "Proximity to suspicious sites: -"
              \o Fmt1(3 * proximity_score) \o "% trust"
     /\ RawTotal = Contributions(AgeThreshold, text_content, analysis,
                                 https_status, blacklist_status, 0).trust_score
                     - (IF age_days < AgeThreshold
                        THEN Min(AgePenaltyCap * Scale,
                                 (AgeThreshold - age_days) * 40)
                        ELSE 0)
                     - proximity_score * 219

\* a result returned for a negative age, charged the capped penalty
C5_MalformedReturned ==
  /\ Returned
  /\ age_days < 0
  /\ HasReason(trust_index.reasons, "domain_age")
  /\ trust_index.score \in 0..FullTrust

\* C6: reasons holds one entry per calculator that fired, in the fixed order
\* domain age, keywords, AI, HTTPS, blacklist, proximity; HTTPS and proximity
\* always fire, so it has 2 to 6 entries, and 6 when all six fire.
C6_ReasonsInFixedOrder ==
  Returned =>
    LET r == trust_index.reasons
        Fires(calc) ==
          CASE calc = "domain_age" -> IsYoung(age_days)
            [] calc = "keywords" -> WordCount(text_content) > 0
            [] calc = "ai" -> AiPenalty(analysis) > 0
            [] calc = "https" -> TRUE
            [] calc = "blacklist" -> BlacklistFlagged(blacklist_status)
            [] calc = "proximity" -> TRUE
    IN  /\ Len(r) \in 2..6
        /\ \A i, j \in 1..Len(r) :
             i < j => Rank(r[i].calc) < Rank(r[j].calc)
        /\ \A i \in 1..Len(CalcOrder) :
             Fires(CalcOrder[i]) <=> HasReason(r, CalcOrder[i])
        /\ (\A i \in 1..Len(CalcOrder) : Fires(CalcOrder[i])) => Len(r) = 6

\* all six calculators fired, with penalties out of order of magnitude
C6_AllSixFire ==
  /\ Returned
  /\ ValidInput
  /\ Len(trust_index.reasons) = 6
  /\ AiPenalty(analysis) > KeywordPenalty(WordCount(text_content))

\* C7: of two calls that differ only in proximity_score, p1 <= p2, the second
\* returns a score less than or equal to the first's.
C7_ProximityMonotone ==
  (previous.called /\ previous.proximity_score <= proximity_score)
    => trust_index.score <= previous.score

\* a second call with a higher proximity score that returned a lower score
C7_SecondCallLower ==
  /\ previous.called
  /\ previous.proximity_score < proximity_score
  /\ trust_index.score < previous.score

\* the difference the domain age makes to the running total of this call
AgeCharge ==
  Contributions(AgeThreshold, text_content, analysis, https_status,
                blacklist_status, proximity_score).trust_score
    - RawTotal

\* C8: an age of exactly 365 days has no domain-age penalty and no domain-age
\* reason; an age of 0 days, which get_domain_info also reports when the WHOIS
\* lookup fails or has no creation date, has the maximum 20-point penalty;
\* every age in 0..364 has a penalty greater than 0 and at most 20.
C8_DomainAgeBoundaries ==
  Returned =>
    LET charge == AgeCharge
    IN
     /\ age_days = AgeThreshold =>
          /\ ~HasReason(trust_index.reasons, "domain_age")
          /\ charge = 0
     /\ age_days = 0 =>
          /\ trust_index.reasons[1]
               = Reason("domain_age", "New domain (0 days old): -20.0% trust")
          /\ charge = AgePenaltyCap * Scale
     /\ age_days \in 0..(AgeThreshold - 1) =>
          /\ trust_index.reasons[1].calc = "domain_age"
          /\ charge > 0
          /\ charge <= AgePenaltyCap * Scale
     /\ \A whois \in WhoisOutcomes :
          whois.outcome \in {"error", "no_date"}
            => get_domain_info(whois).age_days = 0

\* a call for a domain of age 0 charged the full 20 points
C8_AgeZeroCharged ==
  /\ Returned
  /\ age_days = 0
  /\ AgeCharge = AgePenaltyCap * Scale
  /\ HasReason(trust_index.reasons, "domain_age")

Collaborators == Functions \ {"calculate_trust_index"}

\* the request was refused by the url checks of check_url
Rejected ==
  \/ ~form_url.given
  \/ form_url.value = << >>
  \/ ~is_valid_url(url)

\* the request ended in the handler of a failed page fetch
FetchFailed ==
  pc = "done" /\ calls["fetch"] = 1 /\ calls["get_domain_info"] = 0

\* C9: within one request every collaborator is invoked at most once,
\* calculate_trust_index only after all six signals are there, and never when
\* the request is rejected or the page fetch fails, which end in an error
\* response.
C9_OncePerRequest ==
  /\ \A f \in Functions : calls[f] <= 1
  /\ calls["calculate_trust_index"] = 1
       => \A f \in Collaborators : calls[f] = 1
  /\ (pc # "start" /\ Rejected) =>
       /\ pc = "done"
       /\ \A f \in Functions : calls[f] = 0
       /\ response.code = 400
  /\ FetchFailed =>
       /\ calls["calculate_trust_index"] = 0
       /\ response.code = 400

\* a request scored after each of the six collaborators was invoked once
C9_ScoredAfterSixSignals ==
  /\ pc = "done"
  /\ calls["calculate_trust_index"] = 1
  /\ \A f \in Collaborators : calls[f] = 1
  /\ response.code = 200

\* C10: of the messages check_https produces only "Valid HTTPS Found" earns
\* "Valid HTTPS: +5% trust"; "Invalid or Expired Certificate" and every
\* "HTTPS Error: ..." message get the 15-point "Invalid HTTPS" penalty.
C10_BonusOnlyForValidatedCertificate ==
  (pc = "done" /\ calls["calculate_trust_index"] = 1) =>
     /\ https_status = MsgValidHttps
          => ReasonText(trust_index.reasons, "https")
               = "Valid HTTPS: +5% trust"
     /\ https_status # MsgValidHttps
          => ReasonText(trust_index.reasons, "https")
               = "Invalid HTTPS: -15% trust"

=============================================================================
